---------------------------- MODULE Spec2Model ----------------------------
(***************************************************************************)
(* A model of triton::backend::BackendModel (src/src/backend_model.cc):    *)
(* the constructor, step by step, with every THROW_IF_BACKEND_MODEL_ERROR  *)
(* exit; SupportsFirstDimBatching, both as one sequential call and as the  *)
(* per-thread steps of concurrent calls; and FindBatchOutput.              *)
(***************************************************************************)
EXTENDS Integers, Sequences, FiniteSets, TLC

(***************************************************************************)
(* Bounds of the model.                                                    *)
(***************************************************************************)
MaxInputs == 2

MaxDesc == 2

MaxCalls == 3

(***************************************************************************)
(* JSON values of the parsed configuration (model_config_).  A member that *)
(* the document does not hold is Absent.                                   *)
(***************************************************************************)
Absent == [t |-> "absent"]

JBool(b) == [t |-> "bool", b |-> b]

JInt(n) == [t |-> "int", n |-> n]

JStr(s) == [t |-> "string", s |-> s]

JObj(o) == [t |-> "object", o |-> o]

JArr(a) == [t |-> "array", a |-> a]

(***************************************************************************)
(* TRITONSERVER_Error values: a code and the pieces of the message.        *)
(***************************************************************************)
NoError == [code |-> "OK", msg |-> <<>>]

HostError(call) == [code |-> "HOST", msg |-> <<call>>]

JsonError(key) == [code |-> "JSON", msg |-> <<key>>]

UnsupportedRepositoryError(model_name) ==
    [code |-> "UNSUPPORTED",
     msg |-> <<"unsupported repository artifact type for model '",
               model_name, "'">>]

UnsupportedOptionalError(io_name) ==
    [code |-> "INVALID_ARG",
     msg |-> <<"'optional' is set to true for input '", io_name,
               "' while the backend model doesn't support optional input">>]

\* The message of error e contains the piece s.
Names(e, s) == \E k \in 1..Len(e.msg) : e.msg[k] = s

(***************************************************************************)
(* The TritonJson accessors (triton/common/triton_json.h) the constructor  *)
(* calls.  Find tells whether the member is there, and the constructor     *)
(* asks it first for every member it takes to be optional (lines 96, 98,   *)
(* 102, 128, 136).  The MemberAs... and As... accessors return an error,   *)
(* and leave the output argument alone, for a member that is missing or of *)
(* another type; the constructor throws that error.                        *)
(***************************************************************************)
Find(obj, key) == obj[key].t # "absent"

MemberAsInt(obj, key) ==
    IF obj[key].t = "int"
    THEN [err |-> NoError, n |-> obj[key].n]
    ELSE [err |-> JsonError(key), n |-> 0]

AsBool(v) ==
    IF v.t = "bool"
    THEN [err |-> NoError, b |-> v.b]
    ELSE [err |-> JsonError("bool"), b |-> FALSE]

MemberAsBool(obj, key) ==
    IF obj[key].t = "bool"
    THEN [err |-> NoError, b |-> obj[key].b]
    ELSE [err |-> JsonError(key), b |-> FALSE]

MemberAsString(obj, key) ==
    IF obj[key].t = "string"
    THEN [err |-> NoError, s |-> obj[key].s]
    ELSE [err |-> JsonError(key), s |-> ""]

(***************************************************************************)
(* A member of the object that the constructor has not assigned yet.       *)
(***************************************************************************)
Unset == [set |-> FALSE]

Val(x) == [set |-> TRUE, v |-> x]

(***************************************************************************)
(* What the host and the backend hand to the constructor.                  *)
(*   host: the answers of TRITONBACKEND_ModelName, _ModelVersion and       *)
(*         _ModelRepository;                                               *)
(*   doc:  the configuration the host serializes: whether it parses, its   *)
(*         members, and what BatchOutput::ParseFromModelConfig makes of it *)
(*         (a list of descriptors, each a list of target names).           *)
(***************************************************************************)
ModelNames == {"resnet", "bert"}

ArtifactTypes == {"FILESYSTEM", "OTHER"}

RepositoryPaths == {"/models/a", "/models/b"}

InputNames == {"IN0", "IN1"}

OutputNames == {"OUT0", "OUT1"}

\* A name that FindBatchOutput is asked for and no descriptor can hold.
LookupNames == OutputNames \cup {"OUT9"}

MbsValues == {0, 8}

BaseHost ==
    [model_name |-> "resnet", version |-> 1,
     artifact_type |-> "FILESYSTEM", repository_path |-> "/models/a"]

Input(name, ragged, optional) ==
    [name |-> name, allow_ragged_batch |-> ragged, optional |-> optional]

\* The configuration of the spec's scenario, with one batch output.
BaseDoc ==
    [parses |-> TRUE,
     max_batch_size |-> JInt(8),
     optimization |-> Absent,
     batch_output |-> << <<"OUT0">> >>,
     input |-> JArr(<< Input(JStr("IN0"), JBool(TRUE), Absent),
                       Input(JStr("IN1"), Absent, JBool(TRUE)) >>)]

Env(host, allow_optional, doc) ==
    [host |-> host, allow_optional |-> allow_optional, doc |-> doc]

SeqsUpTo(S, n) == UNION {[1..k -> S] : k \in 0..n}

Hosts ==
    [model_name : ModelNames, version : {1},
     artifact_type : ArtifactTypes, repository_path : RepositoryPaths]

PinnedSections ==
    {Absent} \cup {JObj([enable |-> e]) : e \in {Absent, JBool(TRUE), JBool(FALSE)}}

Optimizations ==
    {Absent} \cup
    {JObj([input_pinned_memory |-> pin, output_pinned_memory |-> pout]) :
        pin \in PinnedSections, pout \in PinnedSections}

Flags == {Absent, JBool(TRUE), JBool(FALSE)}

InputEntries ==
    {Input(JStr(n), r, o) : n \in InputNames, r \in Flags, o \in Flags}

\* Entries whose members have the wrong type or no name.
BadEntries ==
    {Input(Absent, Absent, Absent),
     Input(JStr("IN0"), JStr("yes"), Absent),
     Input(JStr("IN0"), Absent, JStr("yes")),
     Input(JStr("IN0"), JBool(TRUE), JInt(1))}

TargetLists == SeqsUpTo(OutputNames, 2) \ {<<>>}

HostEnvs == {Env(h, TRUE, BaseDoc) : h \in Hosts}

ScalarEnvs ==
    {Env(BaseHost, TRUE, [BaseDoc EXCEPT !.max_batch_size = m, !.optimization = o]) :
        m \in {Absent, JStr("8")} \cup {JInt(n) : n \in MbsValues},
        o \in Optimizations}
    \cup {Env(BaseHost, TRUE, [BaseDoc EXCEPT !.parses = FALSE])}

OutputEnvs ==
    {Env(BaseHost, TRUE, [BaseDoc EXCEPT !.batch_output = d]) :
        d \in SeqsUpTo(TargetLists, MaxDesc)}

InputEnvs ==
    {Env(BaseHost, a, [BaseDoc EXCEPT !.input = l]) :
        a \in BOOLEAN,
        l \in {Absent}
              \cup {JArr(x) : x \in SeqsUpTo(InputEntries, MaxInputs)}
              \cup {JArr(<<b>>) : b \in BadEntries}
              \cup {JArr(<<BaseDoc.input.a[1], b>>) : b \in BadEntries}}

Envs == HostEnvs \cup ScalarEnvs \cup OutputEnvs \cup InputEnvs

(***************************************************************************)
(* The state.                                                              *)
(*   env             what the constructor is given (never changes)         *)
(*   pc              the constructor's position; "done" once it returned,  *)
(*                   "failed" once it threw                                *)
(*   error           the BackendModelException thrown                      *)
(*   config_message  the host's message: "none", "live" or "deleted"       *)
(*   delete_calls    calls of TRITONSERVER_MessageDelete so far            *)
(*   err             the constructor's local err (model_config_.Parse)     *)
(*   i               the index of the input loop (from 1)                  *)
(*   this            the members of the BackendModel                       *)
(*   calls           the sequential SupportsFirstDimBatching calls so far  *)
(*   lookup          the last FindBatchOutput call                         *)
(*   th              the threads inside SupportsFirstDimBatching           *)
(***************************************************************************)
VARIABLES env, pc, error, config_message, delete_calls, err, i, this,
          calls, lookup, th

vars == <<env, pc, error, config_message, delete_calls, err, i, this,
          calls, lookup, th>>

\* nullptr, as FindBatchOutput returns it; a descriptor is its index (from 1).
NullPtr == 0

Threads == {"t1", "t2"}

\* Lines 36-39: the member initializer list; the other members are unassigned.
NewObject ==
    [name_ |-> Unset, version_ |-> Unset, max_batch_size_ |-> Unset,
     repository_path_ |-> Unset, triton_server_ |-> Unset,
     triton_memory_manager_ |-> Unset,
     enable_pinned_input_ |-> Unset, enable_pinned_output_ |-> Unset,
     batch_inputs_ |-> Unset, batch_outputs_ |-> <<>>,
     batch_output_map_ |-> <<>>,
     ragged_inputs_ |-> {}, optional_inputs_ |-> {},
     supports_batching_initialized_ |-> FALSE, supports_batching_ |-> FALSE]

\* A thread outside SupportsFirstDimBatching: its local flags, the stores of
\* lines 163-164 it has made, the calls it has ended, and what the last one
\* wrote to *supports and returned.
IdleThread == [pc |-> "idle", flags |-> 0, stored |-> {}, calls |-> 0,
               supports |-> Unset, ret |-> NoError]

NoLookup == [asked |-> FALSE, name |-> "", result |-> NullPtr]

Init ==
    /\ env \in Envs
    /\ pc = "ModelConfig"
    /\ error = NoError
    /\ config_message = "none"
    /\ delete_calls = 0
    /\ err = NoError
    /\ i = 0
    /\ this = NewObject
    /\ calls = <<>>
    /\ lookup = NoLookup
    /\ th = [t \in Threads |-> IdleThread]

\* throw BackendModelException(e): the constructor ends.
Throw(e) == error' = e /\ pc' = "failed"

Goto(l) == pc' = l /\ UNCHANGED error

queryVars == <<calls, lookup, th>>

(***************************************************************************)
(* BackendModel::BackendModel, lines 36-151.  A host call may fail; which  *)
(* it does is the host's choice (ok).  THROW_IF_BACKEND_MODEL_ERROR throws *)
(* the error its argument returns.                                         *)
(***************************************************************************)

\* Lines 41-43: TRITONBACKEND_ModelConfig hands out config_message.
CtorModelConfig ==
    /\ pc = "ModelConfig"
    /\ \E ok \in BOOLEAN :
          IF ok
          THEN config_message' = "live" /\ Goto("SerializeToJson")
          ELSE Throw(HostError("TRITONBACKEND_ModelConfig"))
               /\ UNCHANGED config_message
    /\ UNCHANGED <<env, delete_calls, err, i, this, queryVars>>

\* Lines 49-52: TRITONSERVER_MessageSerializeToJson; on its error the
\* constructor throws at once.
CtorSerializeToJson ==
    /\ pc = "SerializeToJson"
    /\ \E ok \in BOOLEAN :
          IF ok
          THEN Goto("Parse")
          ELSE Throw(HostError("TRITONSERVER_MessageSerializeToJson"))
    /\ UNCHANGED <<env, config_message, delete_calls, err, i, this, queryVars>>

\* Line 54: err = model_config_.Parse(buffer, byte_size); nothing is thrown yet.
CtorParse ==
    /\ pc = "Parse"
    /\ err' = IF env.doc.parses THEN NoError ELSE JsonError("parse")
    /\ Goto("MessageDelete")
    /\ UNCHANGED <<env, config_message, delete_calls, i, this, queryVars>>

\* Lines 55-56: TRITONSERVER_MessageDelete(config_message), then the parse
\* error, if any, is thrown.
CtorMessageDelete ==
    /\ pc = "MessageDelete"
    /\ delete_calls' = delete_calls + 1
    /\ \E ok \in BOOLEAN :
          IF ok
          THEN /\ config_message' = "deleted"
               /\ IF err # NoError THEN Throw(err) ELSE Goto("ModelName")
          ELSE /\ UNCHANGED config_message
               /\ Throw(HostError("TRITONSERVER_MessageDelete"))
    /\ UNCHANGED <<env, err, i, this, queryVars>>

\* Lines 58-61: TRITONBACKEND_ModelName; name_ = model_name.
CtorModelName ==
    /\ pc = "ModelName"
    /\ \E ok \in BOOLEAN :
          IF ok
          THEN /\ this' = [this EXCEPT !.name_ = Val(env.host.model_name)]
               /\ Goto("ModelVersion")
          ELSE Throw(HostError("TRITONBACKEND_ModelName")) /\ UNCHANGED this
    /\ UNCHANGED <<env, config_message, delete_calls, err, i, queryVars>>

\* Lines 63-64: TRITONBACKEND_ModelVersion writes version_.
CtorModelVersion ==
    /\ pc = "ModelVersion"
    /\ \E ok \in BOOLEAN :
          IF ok
          THEN /\ this' = [this EXCEPT !.version_ = Val(env.host.version)]
               /\ Goto("MaxBatchSize")
          ELSE Throw(HostError("TRITONBACKEND_ModelVersion")) /\ UNCHANGED this
    /\ UNCHANGED <<env, config_message, delete_calls, err, i, queryVars>>

\* Lines 66-69: mbs = 0; MemberAsInt("max_batch_size", &mbs) or throw;
\* max_batch_size_ = mbs.
CtorMaxBatchSize ==
    /\ pc = "MaxBatchSize"
    /\ LET r == MemberAsInt(env.doc, "max_batch_size")
       IN  IF r.err = NoError
           THEN /\ this' = [this EXCEPT !.max_batch_size_ = Val(r.n)]
                /\ Goto("ModelRepository")
           ELSE Throw(r.err) /\ UNCHANGED this
    /\ UNCHANGED <<env, config_message, delete_calls, err, i, queryVars>>

\* A constructor that takes a repository of any artifact type.
RepositoryError_AnyType(artifact_type, model_name) == NoError

\* Lines 75-81: the error for a repository of that artifact type.
RepositoryError(artifact_type, model_name) ==
    IF artifact_type # "FILESYSTEM"
    THEN UnsupportedRepositoryError(model_name)
    ELSE NoError

\* Lines 71-82: TRITONBACKEND_ModelRepository; any artifact type but the
\* filesystem throws; repository_path_ = repository_path.
CtorModelRepository ==
    /\ pc = "ModelRepository"
    /\ \E ok \in BOOLEAN :
          IF ~ok
          THEN Throw(HostError("TRITONBACKEND_ModelRepository"))
               /\ UNCHANGED this
          ELSE IF RepositoryError(env.host.artifact_type,
                                  env.host.model_name) # NoError
          THEN Throw(RepositoryError(env.host.artifact_type,
                                     env.host.model_name))
               /\ UNCHANGED this
          ELSE /\ this' = [this EXCEPT
                              !.repository_path_ = Val(env.host.repository_path)]
               /\ Goto("ModelServer")
    /\ UNCHANGED <<env, config_message, delete_calls, err, i, queryVars>>

\* Lines 84-85: TRITONBACKEND_ModelServer writes triton_server_.
CtorModelServer ==
    /\ pc = "ModelServer"
    /\ \E ok \in BOOLEAN :
          IF ok
          THEN /\ this' = [this EXCEPT !.triton_server_ = Val("server")]
               /\ Goto("ModelBackend")
          ELSE Throw(HostError("TRITONBACKEND_ModelServer")) /\ UNCHANGED this
    /\ UNCHANGED <<env, config_message, delete_calls, err, i, queryVars>>

\* Lines 86-88: TRITONBACKEND_ModelBackend writes the local backend.
CtorModelBackend ==
    /\ pc = "ModelBackend"
    /\ \E ok \in BOOLEAN :
          IF ok
          THEN Goto("BackendMemoryManager")
          ELSE Throw(HostError("TRITONBACKEND_ModelBackend"))
    /\ UNCHANGED <<env, config_message, delete_calls, err, i, this, queryVars>>

\* Lines 89-90: TRITONBACKEND_BackendMemoryManager writes
\* triton_memory_manager_.
CtorBackendMemoryManager ==
    /\ pc = "BackendMemoryManager"
    /\ \E ok \in BOOLEAN :
          IF ok
          THEN /\ this' = [this EXCEPT
                              !.triton_memory_manager_ = Val("memory_manager")]
               /\ Goto("PinnedMemory")
          ELSE Throw(HostError("TRITONBACKEND_BackendMemoryManager"))
               /\ UNCHANGED this
    /\ UNCHANGED <<env, config_message, delete_calls, err, i, queryVars>>

\* Lines 92-107: both flags are set false; each is then read from
\* optimization.<section>.enable when optimization and the section are
\* found, and a section without a bool enable throws.
CtorPinnedMemory ==
    /\ pc = "PinnedMemory"
    /\ LET hasOpt == Find(env.doc, "optimization")
           opt == env.doc.optimization.o
           hasIn == hasOpt /\ Find(opt, "input_pinned_memory")
           rin == MemberAsBool(opt.input_pinned_memory.o, "enable")
           hasOut == hasOpt /\ Find(opt, "output_pinned_memory")
           rout == MemberAsBool(opt.output_pinned_memory.o, "enable")
           pin == IF hasIn /\ rin.err = NoError THEN rin.b ELSE FALSE
           pout == IF hasOut /\ rout.err = NoError THEN rout.b ELSE FALSE
       IN  IF hasIn /\ rin.err # NoError
           THEN /\ this' = [this EXCEPT !.enable_pinned_input_ = Val(FALSE),
                                        !.enable_pinned_output_ = Val(FALSE)]
                /\ Throw(rin.err)
           ELSE IF hasOut /\ rout.err # NoError
           THEN /\ this' = [this EXCEPT !.enable_pinned_input_ = Val(pin),
                                        !.enable_pinned_output_ = Val(FALSE)]
                /\ Throw(rout.err)
           ELSE /\ this' = [this EXCEPT !.enable_pinned_input_ = Val(pin),
                                        !.enable_pinned_output_ = Val(pout)]
                /\ Goto("BatchInput")
    /\ UNCHANGED <<env, config_message, delete_calls, err, i, queryVars>>

\* Lines 109-110: BatchInput::ParseFromModelConfig fills batch_inputs_.
CtorBatchInput ==
    /\ pc = "BatchInput"
    /\ \E ok \in BOOLEAN :
          IF ok
          THEN /\ this' = [this EXCEPT !.batch_inputs_ = Val("parsed")]
               /\ Goto("BatchOutput")
          ELSE Throw(JsonError("batch_input")) /\ UNCHANGED this
    /\ UNCHANGED <<env, config_message, delete_calls, err, i, queryVars>>

\* std::map::emplace: a key the map holds already keeps its value.
Emplace(map, key, value) ==
    IF key \in DOMAIN map THEN map ELSE (key :> value) @@ map

\* Lines 114-116: the target names of descriptor d, from the k-th on.
RECURSIVE EmplaceTargets(_, _, _, _)
EmplaceTargets(map, names, d, k) ==
    IF k > Len(names)
    THEN map
    ELSE EmplaceTargets(Emplace(map, names[k], d), names, d, k + 1)

\* Lines 113-117: the descriptors of batch_outputs, from the d-th on.
RECURSIVE BuildBatchOutputMap(_, _, _)
BuildBatchOutputMap(map, outputs, d) ==
    IF d > Len(outputs)
    THEN map
    ELSE BuildBatchOutputMap(EmplaceTargets(map, outputs[d], d, 1), outputs, d + 1)

\* Lines 111-117: BatchOutput::ParseFromModelConfig fills batch_outputs_,
\* and batch_output_map_ is built from it.
CtorBatchOutput ==
    /\ pc = "BatchOutput"
    /\ \E ok \in BOOLEAN :
          IF ok
          THEN /\ this' = [this EXCEPT
                     !.batch_outputs_ = env.doc.batch_output,
                     !.batch_output_map_ =
                         BuildBatchOutputMap(this.batch_output_map_,
                                             env.doc.batch_output, 1)]
               /\ Goto("Inputs")
          ELSE Throw(JsonError("batch_output")) /\ UNCHANGED this
    /\ UNCHANGED <<env, config_message, delete_calls, err, i, queryVars>>

\* Lines 118-120: MemberAsArray("input", &config_inputs) or throw.
CtorInputs ==
    /\ pc = "Inputs"
    /\ IF env.doc.input.t = "array"
       THEN i' = 1 /\ Goto("Input")
       ELSE Throw(JsonError("input")) /\ UNCHANGED i
    /\ UNCHANGED <<env, config_message, delete_calls, err, this, queryVars>>

\* A loop that takes every input for ragged.
AddRagged_Always(ragged_inputs, io_name, allow_ragged_batch) ==
    ragged_inputs \cup {io_name}

\* Lines 132-134: ragged_inputs_ after the input io_name.
AddRagged(ragged_inputs, io_name, allow_ragged_batch) ==
    IF allow_ragged_batch THEN ragged_inputs \cup {io_name} ELSE ragged_inputs

\* A loop that passes over an optional input the backend does not allow.
OptionalError_Ignored(optional, allow_optional, io_name) == NoError

\* Lines 139-149: the error for an input with that optional flag.
OptionalError(optional, allow_optional, io_name) ==
    IF optional /\ ~allow_optional
    THEN UnsupportedOptionalError(io_name)
    ELSE NoError

\* Lines 139-142: optional_inputs_ after the input io_name.
AddOptional(optional_inputs, io_name, optional, allow_optional) ==
    IF optional /\ allow_optional
    THEN optional_inputs \cup {io_name}
    ELSE optional_inputs

\* Lines 121-150: one turn of the loop over the declared inputs.
CtorInput ==
    /\ pc = "Input"
    /\ i <= Len(env.doc.input.a)
    /\ LET io == env.doc.input.a[i]
           rname == MemberAsString(io, "name")
           io_name == rname.s
           rragged == AsBool(io.allow_ragged_batch)
           hasRagged == Find(io, "allow_ragged_batch")
           allow_ragged_batch == hasRagged /\ rragged.b
           ragged == AddRagged(this.ragged_inputs_, io_name, allow_ragged_batch)
           hasOptional == Find(io, "optional")
           roptional == AsBool(io.optional)
           optional == hasOptional /\ roptional.b
       IN  IF rname.err # NoError
           THEN Throw(rname.err) /\ UNCHANGED <<this, i>>
           ELSE IF hasRagged /\ rragged.err # NoError
           THEN Throw(rragged.err) /\ UNCHANGED <<this, i>>
           ELSE IF hasOptional /\ roptional.err # NoError
           THEN /\ this' = [this EXCEPT !.ragged_inputs_ = ragged]
                /\ Throw(roptional.err)
                /\ UNCHANGED i
           ELSE IF OptionalError(optional, env.allow_optional, io_name) # NoError
           THEN /\ this' = [this EXCEPT !.ragged_inputs_ = ragged]
                /\ Throw(OptionalError(optional, env.allow_optional, io_name))
                /\ UNCHANGED i
           ELSE /\ this' = [this EXCEPT
                     !.ragged_inputs_ = ragged,
                     !.optional_inputs_ =
                         AddOptional(@, io_name, optional, env.allow_optional)]
                /\ i' = i + 1
                /\ Goto("Input")
    /\ UNCHANGED <<env, config_message, delete_calls, err, queryVars>>

\* Line 151: the loop is over and the constructor returns.
CtorReturn ==
    /\ pc = "Input"
    /\ i > Len(env.doc.input.a)
    /\ Goto("done")
    /\ UNCHANGED <<env, config_message, delete_calls, err, i, this, queryVars>>

(***************************************************************************)
(* BackendModel::FindBatchOutput, lines 171-176.                           *)
(***************************************************************************)
FindBatchOutput(output_name) ==
    IF output_name \in DOMAIN this.batch_output_map_
    THEN this.batch_output_map_[output_name]
    ELSE NullPtr

\* A caller asks for output_name once the object is constructed.
FindBatchOutputCall ==
    /\ pc = "done"
    /\ \E output_name \in LookupNames :
          lookup' = [asked |-> TRUE, name |-> output_name,
                     result |-> FindBatchOutput(output_name)]
    /\ UNCHANGED <<env, pc, error, config_message, delete_calls, err, i, this,
                   calls, th>>

(***************************************************************************)
(* BackendModel::SupportsFirstDimBatching, lines 153-169.  The host's      *)
(* TRITONSERVER_ServerModelBatchProperties may fail (ok) and answers with  *)
(* a bitmask (flags); nothing in the code makes two answers agree.         *)
(***************************************************************************)
\* TRITONSERVER_BATCH_FIRST_DIM, the bit line 163 tests.
BATCH_FIRST_DIM == 2

BatchFlags == {0, 1, 2, 3}

\* Line 163: (flags & TRITONSERVER_BATCH_FIRST_DIM) != 0.
FirstDim(flags) == (flags \div BATCH_FIRST_DIM) % 2 = 1

BatchPropertiesError == HostError("TRITONSERVER_ServerModelBatchProperties")

\* A call that asks the host whatever the cache holds.
NeedsQuery_Always(initialized) == TRUE

\* Line 159: whether the call asks the host.
NeedsQuery(initialized) == ~initialized

\* A call that marks the cache initialized before it looks at the error.
QueryAndCache_MarksOnError(obj, ok, flags) ==
    [obj EXCEPT !.supports_batching_ = IF ok THEN FirstDim(flags) ELSE @,
                !.supports_batching_initialized_ = TRUE]

\* Lines 160-165: the object after the host answered; RETURN_IF_ERROR leaves
\* before either member is stored.
QueryAndCache(obj, ok, flags) ==
    IF ok
    THEN [obj EXCEPT !.supports_batching_ = FirstDim(flags),
                     !.supports_batching_initialized_ = TRUE]
    ELSE obj

\* Lines 161 and 167-168: what a call that asked the host returns, and what
\* it writes to *supports.
QueryReturn(obj, ok, flags) ==
    IF ok
    THEN [queried |-> TRUE, ret |-> NoError,
          supports |-> Val(QueryAndCache(obj, ok, flags).supports_batching_)]
    ELSE [queried |-> TRUE, ret |-> BatchPropertiesError, supports |-> Unset]

\* Lines 167-168: what a call that found the cache initialized returns.
CachedReturn(obj) ==
    [queried |-> FALSE, ret |-> NoError, supports |-> Val(obj.supports_batching_)]

\* One whole call, no other call running.
SupportsFirstDimBatching ==
    /\ pc = "done"
    /\ Len(calls) < MaxCalls
    /\ IF NeedsQuery(this.supports_batching_initialized_)
       THEN \E ok \in BOOLEAN, flags \in BatchFlags :
               /\ this' = QueryAndCache(this, ok, flags)
               /\ calls' = Append(calls, QueryReturn(this, ok, flags))
       ELSE /\ calls' = Append(calls, CachedReturn(this))
            /\ UNCHANGED this
    /\ UNCHANGED <<env, pc, error, config_message, delete_calls, err, i,
                   lookup, th>>

(***************************************************************************)
(* The same function as the steps of a thread t, for calls that overlap.   *)
(* The members are plain bools and the function takes no lock, so two      *)
(* calls race on them: the stores of lines 163 and 164 may become visible  *)
(* to the other thread in either order.                                    *)
(***************************************************************************)
threadFrame == <<env, pc, error, config_message, delete_calls, err, i,
                 calls, lookup>>

\* The call begins; each thread calls once.
Call(t) ==
    /\ pc = "done"
    /\ th[t].pc = "idle"
    /\ th[t].calls = 0
    /\ th' = [th EXCEPT ![t].pc = "check"]
    /\ UNCHANGED <<this, threadFrame>>

\* Line 159: the load of supports_batching_initialized_.
Check(t) ==
    /\ th[t].pc = "check"
    /\ th' = [th EXCEPT ![t].pc =
                 IF NeedsQuery(this.supports_batching_initialized_)
                 THEN "query" ELSE "read"]
    /\ UNCHANGED <<this, threadFrame>>

\* Lines 160-162: the host query; on its error the call returns it.
Query(t) ==
    /\ th[t].pc = "query"
    /\ \E ok \in BOOLEAN, flags \in BatchFlags :
          th' = [th EXCEPT ![t] =
                    IF ok
                    THEN [@ EXCEPT !.pc = "store", !.flags = flags]
                    ELSE [@ EXCEPT !.pc = "idle", !.calls = @ + 1,
                                   !.ret = BatchPropertiesError]]
    /\ UNCHANGED <<this, threadFrame>>

\* Line 163: the store to supports_batching_.
StoreSupports(t) ==
    /\ th[t].pc = "store"
    /\ "supports_batching_" \notin th[t].stored
    /\ this' = [this EXCEPT !.supports_batching_ = FirstDim(th[t].flags)]
    /\ th' = [th EXCEPT ![t].stored = @ \cup {"supports_batching_"}]
    /\ UNCHANGED threadFrame

\* Line 164: the store to supports_batching_initialized_.
StoreInitialized(t) ==
    /\ th[t].pc = "store"
    /\ "supports_batching_initialized_" \notin th[t].stored
    /\ this' = [this EXCEPT !.supports_batching_initialized_ = TRUE]
    /\ th' = [th EXCEPT ![t].stored = @ \cup {"supports_batching_initialized_"}]
    /\ UNCHANGED threadFrame

\* Line 165: both stores are made.
Stored(t) ==
    /\ th[t].pc = "store"
    /\ th[t].stored = {"supports_batching_", "supports_batching_initialized_"}
    /\ th' = [th EXCEPT ![t].pc = "read"]
    /\ UNCHANGED <<this, threadFrame>>

\* Lines 167-168: *supports = supports_batching_; return nullptr.
ReadAndReturn(t) ==
    /\ th[t].pc = "read"
    /\ th' = [th EXCEPT ![t].pc = "idle", ![t].calls = @ + 1,
                        ![t].supports = Val(this.supports_batching_),
                        ![t].ret = NoError]
    /\ UNCHANGED <<this, threadFrame>>

ThreadStep(t) ==
    \/ Call(t)
    \/ Check(t)
    \/ Query(t)
    \/ StoreSupports(t)
    \/ StoreInitialized(t)
    \/ Stored(t)
    \/ ReadAndReturn(t)

Constructor ==
    \/ CtorModelConfig
    \/ CtorSerializeToJson
    \/ CtorParse
    \/ CtorMessageDelete
    \/ CtorModelName
    \/ CtorModelVersion
    \/ CtorMaxBatchSize
    \/ CtorModelRepository
    \/ CtorModelServer
    \/ CtorModelBackend
    \/ CtorBackendMemoryManager
    \/ CtorPinnedMemory
    \/ CtorBatchInput
    \/ CtorBatchOutput
    \/ CtorInputs
    \/ CtorInput
    \/ CtorReturn

Next == Constructor \/ FindBatchOutputCall

Spec == Init /\ [][Next]_vars

(***************************************************************************)
(* The object of the spec's scenario under each host, constructed and then *)
(* asked SupportsFirstDimBatching by one caller at a time.                 *)
(***************************************************************************)
InitCalls == Init /\ env \in HostEnvs

NextCalls == Constructor \/ SupportsFirstDimBatching

SpecCalls == InitCalls /\ [][NextCalls]_vars

(***************************************************************************)
(* The same object, asked by two threads at once.                          *)
(***************************************************************************)
InitThreads == Init /\ env = Env(BaseHost, TRUE, BaseDoc)

NextThreads == Constructor \/ \E t \in Threads : ThreadStep(t)

SpecThreads == InitThreads /\ [][NextThreads]_vars

(***************************************************************************)
(* What the claims speak of.                                               *)
(***************************************************************************)
Ended == pc \in {"done", "failed"}

\* The declared inputs, when the document holds an input array.
DeclaredInputs == IF env.doc.input.t = "array" THEN env.doc.input.a ELSE <<>>

Named(k) == DeclaredInputs[k].name.t = "string"

IsRagged(k) == Named(k) /\ DeclaredInputs[k].allow_ragged_batch = JBool(TRUE)

IsOptional(k) == Named(k) /\ DeclaredInputs[k].optional = JBool(TRUE)

InputIndexes == 1..Len(DeclaredInputs)

OptionalIndexes == {k \in InputIndexes : IsOptional(k)}

FirstOptional == CHOOSE k \in OptionalIndexes : \A j \in OptionalIndexes : k <= j

NameOf(k) == DeclaredInputs[k].name.s

\* The positions the constructor is at once repository_path_ is assigned.
AfterRepository ==
    {"ModelServer", "ModelBackend", "BackendMemoryManager", "PinnedMemory",
     "BatchInput", "BatchOutput", "Inputs", "Input", "done"}

\* The value a pinned-memory flag is to have: enable when the section and
\* the key are there, false otherwise.
PinnedExpected(section) ==
    IF /\ env.doc.optimization.t = "object"
       /\ env.doc.optimization.o[section].t = "object"
       /\ env.doc.optimization.o[section].o.enable.t = "bool"
    THEN env.doc.optimization.o[section].o.enable.b
    ELSE FALSE

\* The section is there and holds no enable key.
EnableAbsent(section) ==
    /\ env.doc.optimization.t = "object"
    /\ env.doc.optimization.o[section].t = "object"
    /\ env.doc.optimization.o[section].o.enable = Absent

\* The descriptors (indexes of batch_outputs_) that list name as a target.
DescriptorsOf(name) ==
    {d \in 1..Len(this.batch_outputs_) :
        \E k \in 1..Len(this.batch_outputs_[d]) : this.batch_outputs_[d][k] = name}

(***************************************************************************)
(* C4, as stated: for every declared input with optional = true, the name  *)
(* is in optional_inputs_ after construction when allow_optional is true,  *)
(* and when allow_optional is false construction fails and the             *)
(* unsupported-optional error names that input; an input without           *)
(* optional = true adds no name to optional_inputs_.                       *)
(***************************************************************************)
C4_EveryOptionalInputNamed ==
    /\ \A k \in OptionalIndexes :
          /\ (pc = "done" /\ env.allow_optional)
                => NameOf(k) \in this.optional_inputs_
          /\ ~env.allow_optional => pc # "done"
          /\ (pc = "failed" /\ error.code = "INVALID_ARG")
                => Names(error, NameOf(k))
    /\ \A n \in this.optional_inputs_ : \E k \in OptionalIndexes : NameOf(k) = n

(***************************************************************************)
(* C4, amended: with allow_optional true, after construction               *)
(* optional_inputs_ is exactly the set of names of the inputs with         *)
(* optional = true; with allow_optional false and such an input declared,  *)
(* construction never succeeds, optional_inputs_ stays empty, and the      *)
(* unsupported-optional error it throws names the first such input in the  *)
(* order of declaration (and only that one).                               *)
(***************************************************************************)
C4_FirstOptionalInputNamed ==
    /\ (pc = "done" /\ env.allow_optional)
          => this.optional_inputs_ = {NameOf(k) : k \in OptionalIndexes}
    /\ \A n \in this.optional_inputs_ : \E k \in OptionalIndexes : NameOf(k) = n
    /\ ~env.allow_optional => this.optional_inputs_ = {}
    /\ (~env.allow_optional /\ OptionalIndexes # {}) =>
          /\ pc # "done"
          /\ pc = "Input" => i <= FirstOptional
    /\ (pc = "failed" /\ error.code = "INVALID_ARG") =>
          /\ ~env.allow_optional
          /\ OptionalIndexes # {}
          /\ i = FirstOptional
          /\ error = UnsupportedOptionalError(NameOf(FirstOptional))

\* Construction failed on the first of two optional inputs of different names.
C4_Witness ==
    /\ pc = "failed"
    /\ error.code = "INVALID_ARG"
    /\ \E j, k \in OptionalIndexes : NameOf(j) # NameOf(k)

(***************************************************************************)
(* C5, as stated: FindBatchOutput(name) returns exactly the descriptor     *)
(* that lists name as a target, for every descriptor that does, and        *)
(* nullptr for a name no descriptor lists.                                 *)
(***************************************************************************)
C5_FindReturnsEveryDescriptor ==
    lookup.asked =>
        /\ \A d \in DescriptorsOf(lookup.name) : lookup.result = d
        /\ DescriptorsOf(lookup.name) = {} => lookup.result = NullPtr

(***************************************************************************)
(* C6, as stated: construction ends with max_batch_size_ equal to the      *)
(* document's max_batch_size, or 0 when the key is absent, and the absence *)
(* of the key is no construction error.                                    *)
(***************************************************************************)
C6_MaxBatchSizeDefaultsToZero ==
    /\ pc = "done" =>
          this.max_batch_size_ =
              Val(IF env.doc.max_batch_size.t = "int"
                  THEN env.doc.max_batch_size.n ELSE 0)
    /\ env.doc.max_batch_size = Absent => error # JsonError("max_batch_size")

(***************************************************************************)
(* C7, as stated: after construction each pinned-memory flag is the enable *)
(* value when it is present and false when the optimization section, the  *)
(* flag's section or its enable key is absent, and no such absence makes   *)
(* construction fail.                                                      *)
(***************************************************************************)
C7_PinnedFlagsDefaultFalse ==
    /\ pc = "done" =>
          /\ this.enable_pinned_input_ = Val(PinnedExpected("input_pinned_memory"))
          /\ this.enable_pinned_output_ = Val(PinnedExpected("output_pinned_memory"))
    /\ (EnableAbsent("input_pinned_memory") \/ EnableAbsent("output_pinned_memory"))
          => error # JsonError("enable")

(***************************************************************************)
(* C8: with an artifact type other than the filesystem the constructor     *)
(* never gets past the repository step, repository_path_ is never          *)
(* assigned, and the error of that step is the unsupported-repository      *)
(* error, whose message holds the model name; with the filesystem type     *)
(* repository_path_ is the host's path from that step on.                  *)
(***************************************************************************)
C8_RepositoryKind ==
    /\ env.host.artifact_type # "FILESYSTEM" =>
          /\ this.repository_path_ = Unset
          /\ pc \notin AfterRepository
          /\ (pc = "failed" /\ this.max_batch_size_ # Unset
                            /\ error.code # "HOST") =>
                /\ error.code = "UNSUPPORTED"
                /\ Names(error, env.host.model_name)
    /\ error.code = "UNSUPPORTED" =>
          /\ env.host.artifact_type # "FILESYSTEM"
          /\ error = UnsupportedRepositoryError(env.host.model_name)
    /\ env.host.artifact_type = "FILESYSTEM" =>
          /\ this.repository_path_ \in {Unset, Val(env.host.repository_path)}
          /\ pc \in AfterRepository =>
                this.repository_path_ = Val(env.host.repository_path)

\* Construction failed on the repository of the model "bert".
C8_Witness ==
    /\ pc = "failed"
    /\ error.code = "UNSUPPORTED"
    /\ env.host.model_name = "bert"
    /\ Names(error, "bert")

(***************************************************************************)
(* C9: after a successful construction ragged_inputs_ is exactly the set   *)
(* of names of the declared inputs whose allow_ragged_batch is true.       *)
(***************************************************************************)
C9_RaggedInputsExact ==
    pc = "done" =>
        /\ this.ragged_inputs_ = {NameOf(k) : k \in {j \in InputIndexes : IsRagged(j)}}
        /\ this.ragged_inputs_ \subseteq {NameOf(k) : k \in InputIndexes}

\* A construction with a ragged input and an input of another name that is not.
C9_Witness ==
    /\ pc = "done"
    /\ \E j, k \in InputIndexes :
          /\ IsRagged(j)
          /\ ~IsRagged(k)
          /\ NameOf(k) \notin this.ragged_inputs_
          /\ NameOf(j) \in this.ragged_inputs_

(***************************************************************************)
(* C10, as stated: once the host has handed out the configuration message, *)
(* every way the constructor ends has called TRITONSERVER_MessageDelete on *)
(* it exactly once.                                                        *)
(***************************************************************************)
C10_MessageDeletedOnce ==
    /\ delete_calls <= 1
    /\ (Ended /\ config_message # "none") => delete_calls = 1

(***************************************************************************)
(* The calls of SupportsFirstDimBatching made so far, one at a time.       *)
(***************************************************************************)
CallIndexes == 1..Len(calls)

Queried == {k \in CallIndexes : calls[k].queried}

Succeeded == {k \in CallIndexes : calls[k].ret = NoError}

Returned == {calls[k].supports : k \in Succeeded}

(***************************************************************************)
(* C1, as stated: over any number of calls at most one host query is       *)
(* issued, and every call returns the same value.                          *)
(***************************************************************************)
C1_AtMostOneQuery ==
    /\ Cardinality(Queried) <= 1
    /\ Cardinality(Returned) <= 1

(***************************************************************************)
(* C1, amended: over any number of calls made one after another, at most   *)
(* one host query succeeds, no query is issued after it, every call before *)
(* it is a failed query, and all the calls that succeed return the value   *)
(* of that one answer, which is the cached value.                          *)
(***************************************************************************)
C1_AtMostOneSuccessfulQuery ==
    /\ Cardinality(Queried \cap Succeeded) <= 1
    /\ \A j, k \in CallIndexes :
          (j < k /\ calls[j].ret = NoError) => ~calls[k].queried
    /\ \A k \in CallIndexes : calls[k].ret # NoError => calls[k].queried
    /\ Cardinality(Returned) <= 1
    /\ Succeeded # {} =>
          /\ this.supports_batching_initialized_
          /\ Returned = {Val(this.supports_batching_)}

\* A failed query, the query that succeeded, and a call served from the cache.
C1_Witness ==
    /\ Len(calls) = 3
    /\ calls[1].ret # NoError
    /\ calls[2].queried /\ calls[2].ret = NoError
    /\ ~calls[3].queried /\ calls[3].supports = Val(TRUE)

(***************************************************************************)
(* C2: a call whose host query fails returns the host's error, leaves      *)
(* supports_batching_initialized_ and supports_batching_ as they were      *)
(* (uninitialized) and writes nothing to *supports; and the call after a   *)
(* failed one issues the host query again.                                 *)
(***************************************************************************)
C2_FailedQueryLeavesCacheUnset ==
    [][(Len(calls') = Len(calls) + 1) =>
          LET call == calls'[Len(calls')]
          IN  /\ call.ret # NoError =>
                    /\ call.ret = BatchPropertiesError
                    /\ call.queried
                    /\ call.supports = Unset
                    /\ this' = this
                    /\ ~this'.supports_batching_initialized_
              /\ (calls # <<>> /\ calls[Len(calls)].ret # NoError) =>
                    call.queried]_vars

\* A failed call followed by a call that asked the host again.
C2_Witness ==
    /\ Len(calls) >= 2
    /\ calls[1].ret = BatchPropertiesError
    /\ calls[2].queried
    /\ calls[2].ret = NoError

(***************************************************************************)
(* C3, as stated: when two threads call at once, under every interleaving  *)
(* both calls return the same value, and once the cache is initialized the *)
(* cached flag is never changed.                                           *)
(***************************************************************************)
C3_ThreadsAgree ==
    [][/\ \A s, t \in Threads :
             (/\ th'[s].calls > 0 /\ th'[s].ret = NoError
              /\ th'[t].calls > 0 /\ th'[t].ret = NoError)
                => th'[s].supports = th'[t].supports
       /\ (this.supports_batching_initialized_
              /\ \A t \in Threads : th[t].pc # "store")
             => this'.supports_batching_ = this.supports_batching_]_vars

====
